---- MODULE Spec2Model ----
(***************************************************************************)
(* Model of the Bates load-file parser of app.py: generate_column_names    *)
(* and parse_data_from_content.                                            *)
(*                                                                         *)
(* A text is a sequence of characters; a character is a one-element        *)
(* string, except the three code points that have no ASCII spelling and    *)
(* are written by name: DELIMITER (U+00FE), BOM (U+FEFF), X14 (U+0014).    *)
(* Column names are strings; a cell is a text.                             *)
(***************************************************************************)
EXTENDS Integers, Sequences, FiniteSets, TLC

VARIABLES
    pc,                 \* "parse" / "names": the call about to run; "done": it returned or raised
    file_content,       \* parse_data_from_content: the parameter, rebound at line 64
    use_fixed_headers,  \* parse_data_from_content: the parameter
    parsed_data,        \* parse_data_from_content: the local, as the call leaves it
    headers_to_use,     \* parse_data_from_content: the local, as the call leaves it
    result,             \* what parse_data_from_content returned or raised
    n,                  \* generate_column_names: the parameter
    names               \* generate_column_names: the returned list

vars == <<pc, file_content, use_fixed_headers, parsed_data, headers_to_use, result, n, names>>

----------------------------------------------------------------------------
(* Configuration, app.py lines 9-44 *)

DELIMITER == "thorn"
BOM == "BOM"
X14 == "x14"

NativeLink == <<"N", "a", "t", "i", "v", "e", " ", "L", "i", "n", "k">>

DEFINITIVE_HEADERS ==
    << "Bates Begin", "Bates End", "Bates Begin Attach", "Bates End Attach",
       "Attachment Document", "Pages", "Author", "Custodian/Source",
       "Date Created", "Date Last Modified", "Date Received", "Date Sent",
       "Time Sent", "Document Extension", "Email BCC", "Email CC",
       "Email From", "Email Subject/Title", "Email To", "Original Filename",
       "File Size", "Original Folder Path", "MD5 Hash", "Parent Document ID",
       "Document Title", "Time Zone", "Text Link", "Native Link" >>

ascii_uppercase ==
    << "A", "B", "C", "D", "E", "F", "G", "H", "I", "J", "K", "L", "M",
       "N", "O", "P", "Q", "R", "S", "T", "U", "V", "W", "X", "Y", "Z" >>

----------------------------------------------------------------------------
(* generate_column_names, app.py lines 46-56 *)

\* lines 52-54 with the -1 of line 54 left out (plain base 26, with a zero digit)
RECURSIVE column_name_no_carry(_, _)
column_name_no_carry(temp_i, name) ==
    IF temp_i >= 0 /\ (name = "" \/ temp_i > 0)
    THEN column_name_no_carry(temp_i \div 26, ascii_uppercase[(temp_i % 26) + 1] \o name)
    ELSE name

\* the while loop of lines 52-54: temp_i and name are the loop's variables
RECURSIVE column_name(_, _)
column_name(temp_i, name) ==
    IF temp_i >= 0
    THEN column_name((temp_i \div 26) - 1, ascii_uppercase[(temp_i % 26) + 1] \o name)
    ELSE name

\* the for loop of lines 49-55: the name of 0-based position i is at index i+1
generate_column_names(k) == [i \in 1..k |-> column_name(i - 1, "")]

----------------------------------------------------------------------------
(* str methods used by parse_data_from_content *)

\* str.lstrip(chars) for a one-character chars, line 64
RECURSIVE lstrip(_, _)
lstrip(s, c) == IF s # <<>> /\ Head(s) = c THEN lstrip(Tail(s), c) ELSE s

\* str.replace(c, '') for a one-character c, line 64
replace(s, c) == SelectSeq(s, LAMBDA x : x # c)

\* the characters of the model's alphabet that str.strip() removes
WHITESPACE == {" ", "\t", "\n", "\r"}

RECURSIVE strip_left(_)
strip_left(s) == IF s # <<>> /\ Head(s) \in WHITESPACE THEN strip_left(Tail(s)) ELSE s

RECURSIVE strip_right(_)
strip_right(s) ==
    IF s # <<>> /\ s[Len(s)] \in WHITESPACE THEN strip_right(SubSeq(s, 1, Len(s) - 1)) ELSE s

\* str.strip(), line 87
strip(s) == strip_right(strip_left(s))

\* str.split(sep) for a one-character sep, line 66: always at least one piece
RECURSIVE split(_, _)
split(s, sep) ==
    IF \A i \in 1..Len(s) : s[i] # sep
    THEN <<s>>
    ELSE LET k == CHOOSE i \in 1..Len(s) : s[i] = sep /\ \A j \in 1..(i - 1) : s[j] # sep
         IN  <<SubSeq(s, 1, k - 1)>> \o split(SubSeq(s, k + 1, Len(s)), sep)

\* the operator `in` on two strings, line 71
contains(line, pat) ==
    \E i \in 1..(Len(line) - Len(pat) + 1) : SubSeq(line, i, i + Len(pat) - 1) = pat

----------------------------------------------------------------------------
(* csv.reader(raw_data_lines, delimiter=DELIMITER), line 81.  The dialect  *)
(* is the default one but for the delimiter: quotechar '"', doublequote,   *)
(* no escapechar, no skipinitialspace, not strict.  The reader is the      *)
(* character automaton of the csv module; EOL is the end-of-line mark the  *)
(* reader feeds itself after the last character of each line.              *)

QUOTECHAR == "\""
EOL == "EOL"

IsNewline(c) == c \in {"\n", "\r"}

ReaderStart == [state |-> "START_RECORD", field |-> <<>>, fields |-> <<>>, err |-> FALSE]

SaveField(st) == [st EXCEPT !.fields = Append(@, st.field), !.field = <<>>]

AddChar(st, c) == [st EXCEPT !.field = Append(@, c)]

EndOfField(st, c) ==
    [SaveField(st) EXCEPT !.state = IF c = EOL THEN "START_RECORD" ELSE "EAT_CRNL"]

\* one character fed to the automaton
ProcessChar(st, c) ==
    LET s == IF st.state = "START_RECORD" /\ c # EOL /\ ~IsNewline(c)
             THEN [st EXCEPT !.state = "START_FIELD"]
             ELSE st
    IN  CASE s.state = "START_RECORD" ->
                IF c = EOL THEN s ELSE [s EXCEPT !.state = "EAT_CRNL"]
          [] s.state = "START_FIELD" ->
                IF c = EOL \/ IsNewline(c) THEN EndOfField(s, c)
                ELSE IF c = QUOTECHAR THEN [s EXCEPT !.state = "IN_QUOTED_FIELD"]
                ELSE IF c = DELIMITER THEN SaveField(s)
                ELSE [AddChar(s, c) EXCEPT !.state = "IN_FIELD"]
          [] s.state = "IN_FIELD" ->
                IF c = EOL \/ IsNewline(c) THEN EndOfField(s, c)
                ELSE IF c = DELIMITER THEN [SaveField(s) EXCEPT !.state = "START_FIELD"]
                ELSE AddChar(s, c)
          [] s.state = "IN_QUOTED_FIELD" ->
                IF c = EOL THEN s
                ELSE IF c = QUOTECHAR THEN [s EXCEPT !.state = "QUOTE_IN_QUOTED_FIELD"]
                ELSE AddChar(s, c)
          [] s.state = "QUOTE_IN_QUOTED_FIELD" ->
                IF c = QUOTECHAR THEN [AddChar(s, c) EXCEPT !.state = "IN_QUOTED_FIELD"]
                ELSE IF c = DELIMITER THEN [SaveField(s) EXCEPT !.state = "START_FIELD"]
                ELSE IF c = EOL \/ IsNewline(c) THEN EndOfField(s, c)
                ELSE [AddChar(s, c) EXCEPT !.state = "IN_FIELD"]
          [] s.state = "EAT_CRNL" ->
                IF IsNewline(c) THEN s
                ELSE IF c = EOL THEN [s EXCEPT !.state = "START_RECORD"]
                ELSE [s EXCEPT !.err = TRUE]

\* the characters of one line, then its EOL
RECURSIVE ProcessLine(_, _, _)
ProcessLine(st, line, i) ==
    IF st.err THEN st
    ELSE IF i > Len(line) THEN ProcessChar(st, EOL)
    ELSE ProcessLine(ProcessChar(st, line[i]), line, i + 1)

\* The rows the reader yields, in order, and whether it raised csv.Error
\* (the rows yielded before the error are in rows).  A record is complete
\* when a line leaves the automaton in START_RECORD; a line that ends inside
\* a quoted field is continued by the next one; at the end of the input an
\* open quoted field is saved and its record yielded.
RECURSIVE ReadRows(_, _, _, _)
ReadRows(lines, i, st, rows) ==
    IF i > Len(lines)
    THEN [rows |-> IF st.field # <<>> \/ st.state = "IN_QUOTED_FIELD"
                   THEN Append(rows, SaveField(st).fields)
                   ELSE rows,
          err |-> FALSE]
    ELSE LET s == ProcessLine(st, lines[i], 1)
         IN  IF s.err THEN [rows |-> rows, err |-> TRUE]
             ELSE IF s.state = "START_RECORD"
             THEN ReadRows(lines, i + 1, ReaderStart, Append(rows, s.fields))
             ELSE ReadRows(lines, i + 1, s, rows)

csv_reader(lines) == ReadRows(lines, 1, ReaderStart, <<>>)

----------------------------------------------------------------------------
(* pandas, lines 119-126.  A cell that pd.to_numeric made a number is the  *)
(* text of its digits behind the mark NUM; NaN is the one-element text NAN. *)

NUM == "num"
NAN == <<"NaN">>
DIGITS == {"0", "1", "2", "3", "4", "5", "6", "7", "8", "9"}

\* pd.to_numeric(cell, errors='coerce') on the model's alphabet: a non-empty
\* run of digits is a number, every other text is NaN
to_numeric(cell) ==
    IF cell # <<>> /\ \A i \in 1..Len(cell) : cell[i] \in DIGITS
    THEN <<NUM>> \o cell
    ELSE NAN

\* .fillna(''), line 123
fillna(cell) == IF cell = NAN THEN <<>> ELSE cell

IndexOf(seq, x) == CHOOSE i \in 1..Len(seq) : seq[i] = x

\* lines 122-123: the column named Pages, when there is one
coerce_pages(columns, rows) ==
    IF \E i \in 1..Len(columns) : columns[i] = "Pages"
    THEN LET p == IndexOf(columns, "Pages")
         IN  [r \in 1..Len(rows) |-> [rows[r] EXCEPT ![p] = fillna(to_numeric(@))]]
    ELSE rows

KeepIndices(S, seq) == SelectSeq(seq, LAMBDA i : i \in S)

\* df.dropna(axis=1, how='all'), line 126: a column is dropped when every one
\* of its cells is NaN
dropna_columns(columns, rows) ==
    LET keep == {c \in 1..Len(columns) : \E r \in 1..Len(rows) : rows[r][c] # NAN}
        idx == KeepIndices(keep, [i \in 1..Len(columns) |-> i])
    IN  [columns |-> [k \in 1..Len(idx) |-> columns[idx[k]]],
         rows |-> [r \in 1..Len(rows) |-> [k \in 1..Len(idx) |-> rows[r][idx[k]]]]]

----------------------------------------------------------------------------
(* parse_data_from_content, app.py lines 58-128 *)

\* line 64
normalize(text) == replace(lstrip(text, BOM), X14)

\* lines 69-73 with i for the i + 1 of line 72: the marker line opens the data
data_start_index_at_marker(lines) ==
    IF \E i \in 1..Len(lines) : contains(lines[i], NativeLink)
    THEN (CHOOSE i \in 1..Len(lines) :
            /\ contains(lines[i], NativeLink)
            /\ \A j \in 1..(i - 1) : ~contains(lines[j], NativeLink)) - 1
    ELSE 0

\* lines 69-73: the index after the first line that contains 'Native Link', or 0
data_start_index(lines) ==
    IF \E i \in 1..Len(lines) : contains(lines[i], NativeLink)
    THEN CHOOSE i \in 1..Len(lines) :
            /\ contains(lines[i], NativeLink)
            /\ \A j \in 1..(i - 1) : ~contains(lines[j], NativeLink)
    ELSE 0

\* lines 90-93: one empty string off each end
pop_ends(row) ==
    LET a == IF row # <<>> /\ row[1] = <<>> THEN Tail(row) ELSE row
    IN  IF a # <<>> /\ a[Len(a)] = <<>> THEN SubSeq(a, 1, Len(a) - 1) ELSE a

\* lines 87-93
clean_row(row_values) == pop_ends([i \in 1..Len(row_values) |-> strip(row_values[i])])

\* lines 83-97: the rows the reader yields, the empty ones skipped
parsed_rows(rows) ==
    LET kept == SelectSeq(rows, LAMBDA r : r # <<>>)
    IN  [i \in 1..Len(kept) |-> clean_row(kept[i])]

Max(S) == CHOOSE x \in S : \A y \in S : y <= x

\* lines 78, 96
widest(rows) == Max({0} \cup {Len(rows[i]) : i \in 1..Len(rows)})

\* lines 105-109 with the extend of line 107 left out
pad_row_no_extend(row, max_cols) ==
    IF Len(row) > max_cols THEN SubSeq(row, 1, max_cols) ELSE row

\* lines 105-109
pad_row(row, max_cols) ==
    IF Len(row) < max_cols THEN row \o [i \in 1..(max_cols - Len(row)) |-> <<>>]
    ELSE IF Len(row) > max_cols THEN SubSeq(row, 1, max_cols)
    ELSE row

\* lines 112-116 with < for the <= of line 112
headers_for_strict(fixed, max_cols) ==
    IF fixed /\ max_cols < Len(DEFINITIVE_HEADERS)
    THEN SubSeq(DEFINITIVE_HEADERS, 1, max_cols)
    ELSE generate_column_names(max_cols)

\* lines 112-116
headers_for(fixed, max_cols) ==
    IF fixed /\ max_cols <= Len(DEFINITIVE_HEADERS)
    THEN SubSeq(DEFINITIVE_HEADERS, 1, max_cols)
    ELSE generate_column_names(max_cols)

Table(columns, rows) == [kind |-> "table", columns |-> columns, rows |-> rows, error |-> ""]

Raised(what) == [kind |-> "error", columns |-> <<>>, rows |-> <<>>, error |-> what]

\* pd.DataFrame(parsed_data, columns=headers_to_use), line 119: the widest row
\* must have as many cells as there are names, or ValueError is raised; a
\* shorter row is filled up with None
DataFrame(data, columns) ==
    IF widest(data) # Len(columns) THEN Raised("ValueError")
    ELSE Table(columns,
               [r \in 1..Len(data) |->
                   data[r] \o [i \in 1..(Len(columns) - Len(data[r])) |-> NAN]])

\* lines 121-128
post_process(df) ==
    IF df.kind # "table" THEN df
    ELSE LET kept == dropna_columns(df.columns, coerce_pages(df.columns, df.rows))
         IN  Table(kept.columns, kept.rows)

\* The body from line 66 on, for an already normalized text: the locals
\* parsed_data and headers_to_use as the call leaves them (headers_to_use
\* empty when line 112 is not reached) and the value returned or the
\* exception raised
parse_normalized(text, fixed) ==
    LET lines == split(text, "\n")
        raw_data_lines == SubSeq(lines, data_start_index(lines) + 1, Len(lines))
        reader == csv_reader(raw_data_lines)
        parsed == parsed_rows(reader.rows)
        max_cols == widest(parsed)
        padded == [i \in 1..Len(parsed) |-> pad_row(parsed[i], max_cols)]
        headers == headers_for(fixed, max_cols)
    IN  IF reader.err
        THEN [parsed_data |-> parsed, headers_to_use |-> <<>>, result |-> Raised("csv.Error")]
        ELSE IF max_cols = 0 /\ parsed # <<>>
        THEN [parsed_data |-> parsed, headers_to_use |-> <<>>,
              result |-> Raised("Failed to extract meaningful columns from data rows.")]
        ELSE IF max_cols = 0
        THEN [parsed_data |-> parsed, headers_to_use |-> <<>>, result |-> Table(<<>>, <<>>)]
        ELSE [parsed_data |-> padded, headers_to_use |-> headers,
              result |-> post_process(DataFrame(padded, headers))]

parse_data_from_content(text, fixed) == parse_normalized(normalize(text), fixed).result

----------------------------------------------------------------------------
(* The inputs of the calls *)

MaxPieces == 5      \* the texts of Spec are made of at most this many pieces
MaxLineLen == 5     \* the data line of SpecLine has at most this many characters
MaxWide == 30       \* the widest data row of SpecWide has this many fields
MaxN == 704         \* the largest argument of generate_column_names in SpecNames

SeqsUpTo(S, k) == UNION {[1..m -> S] : m \in 0..k}

RECURSIVE Flatten(_)
Flatten(ss) == IF ss = <<>> THEN <<>> ELSE Head(ss) \o Flatten(Tail(ss))

\* A piece is one character, or the marker 'Native Link' whole
Pieces == {<<DELIMITER>>, <<"A">>, <<" ">>, <<"\n">>, <<BOM>>, <<X14>>, <<QUOTECHAR>>, NativeLink}

PieceTexts == {Flatten(ps) : ps \in SeqsUpTo(Pieces, MaxPieces)}

\* One header line ending the header block, then one data line
HeaderLines == {NativeLink, <<DELIMITER, "A", DELIMITER, "A", DELIMITER>> \o NativeLink \o <<DELIMITER>>}

LineChars == {DELIMITER, "A", " ", QUOTECHAR, "\r"}

LineTexts == {h \o <<"\n">> \o l : h \in HeaderLines, l \in SeqsUpTo(LineChars, MaxLineLen)}

\* A header line, a data row of k equal fields wrapped in delimiters, and
\* possibly a second, short row
WideFields == {<<"A">>, <<"1">>, <<>>}

WideRow(k, f) == <<DELIMITER>> \o Flatten([i \in 1..k |-> f \o <<DELIMITER>>])

WideTails == {<<>>, <<"\n", DELIMITER, "A", DELIMITER, "1", DELIMITER>>}

WideTexts ==
    {<<DELIMITER>> \o NativeLink \o <<DELIMITER, "\n">> \o WideRow(k, f) \o t :
        k \in 1..MaxWide, f \in WideFields, t \in WideTails}

NoResult == [kind |-> "none", columns |-> <<>>, rows |-> <<>>, error |-> ""]

----------------------------------------------------------------------------
(* The calls *)

InitParse(texts) ==
    /\ pc = "parse"
    /\ file_content \in texts
    /\ use_fixed_headers \in BOOLEAN
    /\ parsed_data = <<>>
    /\ headers_to_use = <<>>
    /\ result = NoResult
    /\ n = 0
    /\ names = <<>>

Init == InitParse(PieceTexts)

InitLine == InitParse(LineTexts)

InitWide == InitParse(WideTexts)

InitNames ==
    /\ pc = "names"
    /\ n \in 0..MaxN
    /\ names = <<>>
    /\ file_content = <<>>
    /\ use_fixed_headers = FALSE
    /\ parsed_data = <<>>
    /\ headers_to_use = <<>>
    /\ result = NoResult

\* parse_data_from_content(file_content, use_fixed_headers): line 64 rebinds
\* file_content to the normalized text, the rest of the body works on that
ParseDataFromContent ==
    /\ pc = "parse"
    /\ file_content' = normalize(file_content)
    /\ \E out \in {parse_normalized(normalize(file_content), use_fixed_headers)} :
           /\ parsed_data' = out.parsed_data
           /\ headers_to_use' = out.headers_to_use
           /\ result' = out.result
    /\ pc' = "done"
    /\ UNCHANGED <<use_fixed_headers, n, names>>

\* generate_column_names(n)
GenerateColumnNames ==
    /\ pc = "names"
    /\ names' = generate_column_names(n)
    /\ pc' = "done"
    /\ UNCHANGED <<file_content, use_fixed_headers, parsed_data, headers_to_use, result, n>>

Next == ParseDataFromContent

NextNames == GenerateColumnNames

Spec == Init /\ [][Next]_vars

SpecLine == InitLine /\ [][Next]_vars

SpecWide == InitWide /\ [][Next]_vars

SpecNames == InitNames /\ [][NextNames]_vars

----------------------------------------------------------------------------
(* What the claims speak of, read off the state after the call *)

\* parse_data_from_content has returned or raised
Returned == pc = "done" /\ result.kind # "none"

\* generate_column_names has returned
NamesReturned == pc = "done" /\ result.kind = "none"

\* the lines of the normalized text
Lines == split(file_content, "\n")

HasMarker == \E i \in 1..Len(Lines) : contains(Lines[i], NativeLink)

\* the first line that contains 'Native Link': the last line of the header block
MarkerLine ==
    CHOOSE i \in 1..Len(Lines) :
        contains(Lines[i], NativeLink) /\ \A j \in 1..(i - 1) : ~contains(Lines[j], NativeLink)

\* the data region: the lines after the header block
DataLines == SubSeq(Lines, MarkerLine + 1, Len(Lines))

\* the tokens of a line as the specification's Field Tokenizer defines them:
\* split on the delimiter, trim every token, drop one empty token at each end
SpecTokens(line) ==
    LET toks == split(line, DELIMITER)
        trimmed == [i \in 1..Len(toks) |-> strip(toks[i])]
        a == IF trimmed # <<>> /\ trimmed[1] = <<>> THEN Tail(trimmed) ELSE trimmed
    IN  IF a # <<>> /\ a[Len(a)] = <<>> THEN SubSeq(a, 1, Len(a) - 1) ELSE a

\* the header block is tokenized with its lines joined without a separator
HeaderWidth == Len(SpecTokens(Flatten(SubSeq(Lines, 1, MarkerLine))))

CharsOf(text) == {text[i] : i \in 1..Len(text)}

Cells == {result.rows[r][c] : r \in 1..Len(result.rows), c \in 1..Len(result.columns)}

EmptyTable == Table(<<>>, <<>>)

----------------------------------------------------------------------------
(* C1 *)

\* C1: whenever parse_data_from_content returns a table, every row of it has
\* as many cells as the table has column names: the rows and the names the
\* table is built from at line 119, and the rows and the names of the table
\* returned.
C1_RowsMatchColumns ==
    (Returned /\ result.kind = "table") =>
        /\ \A r \in 1..Len(parsed_data) : Len(parsed_data[r]) = Len(headers_to_use)
        /\ \A r \in 1..Len(result.rows) : Len(result.rows[r]) = Len(result.columns)

\* a table of two or more rows, one of them from a line with fewer tokens
\* than the table is wide
C1_Witness ==
    /\ Returned /\ result.kind = "table"
    /\ Len(result.rows) >= 2
    /\ \A r \in 1..Len(result.rows) : Len(result.rows[r]) = Len(result.columns)
    /\ \E i \in 1..Len(Lines) :
          /\ Len(SpecTokens(Lines[i])) >= 1
          /\ Len(SpecTokens(Lines[i])) < Len(result.columns)

----------------------------------------------------------------------------
(* C2, under SpecLine: a header line, then one data line *)

\* C2: the tokens of a data line are the line split on the delimiter, every
\* token trimmed, less one empty token at each end; the empty tokens between
\* two interior delimiters stay where they are.
C2_TokensAreTheSplit ==
    (Returned /\ result.kind = "table" /\ Len(DataLines) = 1 /\ Len(result.rows) = 1) =>
        result.rows[1] = SpecTokens(DataLines[1])

----------------------------------------------------------------------------
(* C3 *)

\* C3: when no line of the normalized text contains 'Native Link', the parse
\* fails: no table is returned.
C3_NoMarkerFails == (Returned /\ ~HasMarker) => result.kind = "error"

----------------------------------------------------------------------------
(* C4 *)

\* C4: every row of the returned table has the width h of the file's own
\* header block, the block's lines joined and tokenized.
C4_RowsHaveHeaderWidth ==
    (Returned /\ HasMarker /\ result.kind = "table") =>
        \A r \in 1..Len(result.rows) : Len(result.rows[r]) = HeaderWidth

----------------------------------------------------------------------------
(* C5 *)

\* C5: normalizing the normalized text changes nothing.
C5_NormalizeIdempotent == Returned => normalize(file_content) = file_content

----------------------------------------------------------------------------
(* C6 *)

\* C6: the normalized text has no byte-order mark and no 0x14 character at
\* any position, and neither has any cell of a returned table.
C6_NoBomNoX14 ==
    Returned =>
        /\ CharsOf(file_content) \cap {BOM, X14} = {}
        /\ \A cell \in Cells : CharsOf(cell) \cap {BOM, X14} = {}

----------------------------------------------------------------------------
(* C7, under SpecNames *)

\* the numerals of bijective base 26 of one and two digits, and the three-digit
\* ones from AAA to AAZ; a digit is 1..26, the most significant one first
Numerals == UNION {[1..m -> 1..26] : m \in 1..2} \cup {<<1, 1, d>> : d \in 1..26}

RECURSIVE NumeralValue(_)
NumeralValue(s) == IF s = <<>> THEN 0 ELSE 26 * NumeralValue(SubSeq(s, 1, Len(s) - 1)) + s[Len(s)]

RECURSIVE NumeralText(_)
NumeralText(s) == IF s = <<>> THEN "" ELSE ascii_uppercase[Head(s)] \o NumeralText(Tail(s))

\* C7: generate_column_names(n) returns n pairwise distinct names, and the
\* name at 0-based position i is the bijective base-26 numeral of i+1 over
\* A..Z: A..Z, then AA, ..., ZZ at position 701, AAA at position 702.
C7_BijectiveNames ==
    NamesReturned =>
        /\ Len(names) = n
        /\ Cardinality({names[i] : i \in 1..n}) = n
        /\ 1..n \subseteq {NumeralValue(s) : s \in Numerals}
        /\ \A s \in Numerals : NumeralValue(s) <= n => names[NumeralValue(s)] = NumeralText(s)
        /\ n >= 26 => SubSeq(names, 1, 26) = ascii_uppercase
        /\ n >= 27 => names[27] = "AA"
        /\ n >= 702 => names[702] = "ZZ"
        /\ n >= 703 => names[703] = "AAA"

\* the call with n = 703 has returned: its last name is AAA
C7_Witness == NamesReturned /\ n = 703 /\ Len(names) = 703 /\ names[703] = "AAA"

----------------------------------------------------------------------------
(* C8 *)

\* C8: a header block ended by a 'Native Link' line with no data line after
\* it, or only empty ones, gives the table of no rows, and no error.
C8_HeaderOnlyIsEmptyTable ==
    (Returned /\ HasMarker /\ \A i \in 1..Len(DataLines) : DataLines[i] = <<>>) =>
        result = EmptyTable

\* a header block followed by empty lines only was parsed to the empty table
C8_Witness ==
    /\ Returned /\ HasMarker
    /\ Len(DataLines) >= 2
    /\ \A i \in 1..Len(DataLines) : DataLines[i] = <<>>
    /\ MarkerLine >= 2
    /\ result.kind = "table" /\ result.rows = <<>>

----------------------------------------------------------------------------
(* C9, under SpecWide *)

\* the observed width: the width of the rows of the returned table
ObservedWidth == Len(result.rows[1])

\* the spreadsheet name of the 1-based column k, k <= 728
LetterName(k) == NumeralText(CHOOSE s \in Numerals : NumeralValue(s) = k)

Min(a, b) == IF a <= b THEN a ELSE b

----------------------------------------------------------------------------
(* C10 *)

\* C10: a data line that is empty after trimming gives no row and no error:
\* a header block followed only by such lines gives the table of no rows.
C10_BlankLinesSkipped ==
    (Returned /\ HasMarker /\ \A i \in 1..Len(DataLines) : strip(DataLines[i]) = <<>>) =>
        result = EmptyTable

====
